---- MODULE Spec2Model ----
(***************************************************************************)
(* The PEG matching engine of package peg (src/peg/language.go) as a       *)
(* call-stack machine, and the grammar tokenizer's handoff to its single   *)
(* consumer (src/unnamed/part_000, the tokenizer's table test).            *)
(*                                                                         *)
(* Every Lexer closure is executed frame by frame: a frame holds the       *)
(* closure's locals, a call pushes a frame, a return pops it and leaves    *)
(* the returned triple (tree, err, consumed) in the register ret.          *)
(***************************************************************************)
EXTENDS Integers, Sequences, FiniteSets, TLC

VARIABLES root, buf, state, stack, ret, result,
          input, lpos, lpc, items, closed, lexErr, produced, received, recvClosed

engineVars == <<root, buf, state, stack, ret, result>>
lexVars == <<input, lpos, lpc, items, closed, lexErr, produced, received, recvClosed>>
vars == <<root, buf, state, stack, ret, result,
          input, lpos, lpc, items, closed, lexErr, produced, received, recvClosed>>

----------------------------------------------------------------------------
(* Bounds *)

\* longest input buffer handed to Parse
MaxLen == 3
\* longest grammar source handed to the tokenizer (besides the test table's)
MaxSrc == 4

\* a repetition frame stops being stepped once it holds this many children;
\* a terminating repetition over a buffer of MaxLen bytes collects at most
\* MaxLen of them
MaxChildren == MaxLen + 2

\* neighborEnd := pos + 10
Neighborhood == 10

Chars == {"a", "b"}

Buffers == UNION {[1..n -> Chars] : n \in 0..MaxLen}

----------------------------------------------------------------------------
(* Values: errors, parse trees *)

NilErr == [kind |-> "nil", expected |-> <<>>, at |-> <<>>]

Min(a, b) == IF a < b THEN a ELSE b

\* s.buf[from:to] of Go, 0-based, half open
Slice(s, from, to) == SubSeq(s, from + 1, to)

\* the nil *ParseTree
NilTree == [isNil |-> TRUE, Type |-> <<>>, Data |-> <<>>, Children |-> <<>>]

\* &ParseTree{Type: typ, Data: data, Children: children}
ParseTree(typ, data, children) ==
    [isNil |-> FALSE, Type |-> typ, Data |-> data, Children |-> children]

\* the (tree, err, consumed) triple every Lexer returns
Triple(tree, err, n) == [tree |-> tree, err |-> err, n |-> n]

----------------------------------------------------------------------------
(* Source buffer *)

\* s.ConsumeLiteral(vbytes, pos): the matched slice, or no match
ConsumeLiteral(b, vbytes, pos) ==
    IF /\ pos + Len(vbytes) <= Len(b)
       /\ Slice(b, pos, pos + Len(vbytes)) = vbytes
    THEN [ok |-> TRUE, bytes |-> Slice(b, pos, pos + Len(vbytes))]
    ELSE [ok |-> FALSE, bytes |-> <<>>]

\* length of the run of character c in b from 0-based offset pos
RECURSIVE RunLen(_, _, _)
RunLen(b, c, pos) ==
    IF pos < Len(b) /\ b[pos + 1] = c THEN 1 + RunLen(b, c, pos + 1) ELSE 0

\* s.Consume(valid, pos) for the patterns <<c, "+">>: anchored at pos, greedy
Consume(b, valid, pos) ==
    LET n == RunLen(b, valid[1], pos)
    IN  IF n > 0
        THEN [ok |-> TRUE, bytes |-> Slice(b, pos, pos + n)]
        ELSE [ok |-> FALSE, bytes |-> <<>>]

----------------------------------------------------------------------------
(* Lexemes *)

Lexeme(kind, name, valid, deps) ==
    [kind |-> kind, Name |-> name, valid |-> valid, Dependencies |-> deps]

NewLiteralLexer(typ, valid) == Lexeme("literal", typ, valid, <<>>)

NewRegexpLexer(typ, valid) == Lexeme("regexp", typ, valid, <<>>)

NewConcatLexer(name, deps) == Lexeme("concat", name, <<>>, deps)

NewPlusClosure(lex) == Lexeme("plus", lex.Name \o <<"+">>, <<>>, <<lex>>)

NewStarClosure(lex) == Lexeme("star", lex.Name \o <<"*">>, <<>>, <<lex>>)

NewOptionClosure(lex) == Lexeme("option", lex.Name \o <<"?">>, <<>>, <<lex>>)

NewAlternateLexer(name, lhs, rhs) == Lexeme("alternate", name, <<>>, <<lhs, rhs>>)

NewDiscardLexer(lex) == Lexeme("discard", lex.Name \o <<"^">>, <<>>, <<lex>>)

LitA == NewLiteralLexer(<<"lit">>, <<"a">>)
LitB == NewLiteralLexer(<<"lit">>, <<"b">>)
LitAB == NewLiteralLexer(<<"lit">>, <<"a", "b">>)
ReA == NewRegexpLexer(<<"re">>, <<"a", "+">>)

\* the terminals the rule graphs are built over: 'a', 'b', 'ab' and ~'a+'
Atoms == {LitA, LitB, LitAB, ReA}

\* the dependency lists of a concatenation over S: one dep, or two
DepLists(S) == {<<x>> : x \in S} \cup {<<x, y>> : x \in S, y \in S}

\* one more level of combinators over S
Combine(S) ==
    S \cup {NewPlusClosure(l) : l \in S}
      \cup {NewStarClosure(l) : l \in S}
      \cup {NewOptionClosure(l) : l \in S}
      \cup {NewDiscardLexer(l) : l \in S}
      \cup {NewAlternateLexer(<<"alt">>, l, r) : l \in S, r \in S}
      \cup {NewConcatLexer(<<"seq">>, d) : d \in DepLists(S)}

\* the rule graphs Parse is run on: two levels of combinators over the atoms
Lexemes == Combine(Combine(Atoms))

----------------------------------------------------------------------------
(* Frames and the return register *)

NoLex == Lexeme("none", <<>>, <<>>, <<>>)

\* a call of lex.Lexer(s, pos): the closure's locals at its entry
Frame(lex, pos) ==
    [lex |-> lex, start |-> pos, pos |-> pos, pc |-> "entry", offset |-> 0,
     i |-> 1, children |-> <<>>, hist |-> <<>>]

NoRet ==
    [valid |-> FALSE, lex |-> NoLex, pos |-> 0, tree |-> NilTree, err |-> NilErr,
     n |-> 0, hist |-> <<>>]

Top == stack[Len(stack)]

Running(kind, pc) ==
    /\ state = "running"
    /\ stack /= <<>>
    /\ Top.lex.kind = kind
    /\ Top.pc = pc

\* what a frame remembers of a child call that returned
Returned == [lex |-> ret.lex, pos |-> ret.pos, tree |-> ret.tree, err |-> ret.err, n |-> ret.n]

\* the child calls the running closure has made so far, the last one included
Seen == Append(Top.hist, Returned)

\* the running closure, having made the child calls hist, returns t to its caller
Return(t, hist) ==
    /\ stack' = SubSeq(stack, 1, Len(stack) - 1)
    /\ ret' = [valid |-> TRUE, lex |-> Top.lex, pos |-> Top.start, tree |-> t.tree,
               err |-> t.err, n |-> t.n, hist |-> hist]
    /\ UNCHANGED <<root, buf, state, result>>

\* the running closure, its locals now f, calls child.Lexer(s, pos)
Call(f, child, pos) ==
    /\ stack' = [stack EXCEPT ![Len(stack)] = f] \o <<Frame(child, pos)>>
    /\ ret' = NoRet
    /\ UNCHANGED <<root, buf, state, result>>

----------------------------------------------------------------------------
(* Terminals *)

\* a match is reported as one byte consumed
LiteralResult_OneByte(typ, valid, b, pos) ==
    LET match == ConsumeLiteral(b, valid, pos)
    IN  IF ~match.ok
        THEN Triple(NilTree,
                    [kind |-> "literal", expected |-> valid,
                     at |-> Slice(b, pos, Min(pos + Neighborhood, Len(b)))],
                    0)
        ELSE Triple(ParseTree(typ, valid, <<>>), NilErr, 1)

\* the Lexer closure of NewLiteralLexer
LiteralResult(typ, valid, b, pos) ==
    LET match == ConsumeLiteral(b, valid, pos)
    IN  IF ~match.ok
        THEN Triple(NilTree,
                    [kind |-> "literal", expected |-> valid,
                     at |-> Slice(b, pos, Min(pos + Neighborhood, Len(b)))],
                    0)
        ELSE Triple(ParseTree(typ, valid, <<>>), NilErr, Len(match.bytes))

LiteralLexer ==
    /\ Running("literal", "entry")
    /\ Return(LiteralResult(Top.lex.Name, Top.lex.valid, buf, Top.pos), <<>>)
    /\ UNCHANGED lexVars

\* the Lexer closure of NewRegexpLexer
RegexpResult(typ, valid, b, pos) ==
    LET match == Consume(b, valid, pos)
    IN  IF ~match.ok
        THEN Triple(NilTree,
                    [kind |-> "regexp", expected |-> valid,
                     at |-> Slice(b, pos, Min(pos + Neighborhood, Len(b)))],
                    0)
        ELSE Triple(ParseTree(typ, match.bytes, <<>>), NilErr, Len(match.bytes))

RegexpLexer ==
    /\ Running("regexp", "entry")
    /\ Return(RegexpResult(Top.lex.Name, Top.lex.valid, buf, Top.pos), <<>>)
    /\ UNCHANGED lexVars

----------------------------------------------------------------------------
(* NewConcatLexer *)

\* every dep is called at the concatenation's own position
ConcatChildPos_NoOffset(pos, offset) == pos

\* dep.Lexer(s, pos+offset)
ConcatChildPos(pos, offset) == pos + offset

\* a nil tree is appended like any other
ConcatKeeps_Nil(tree) == TRUE

\* if tree != nil { children = append(children, tree) }
ConcatKeeps(tree) == ~tree.isNil

\* the failure is returned with the offset reached so far
ConcatFailure_KeepsOffset(err, offset) == Triple(NilTree, err, offset)

\* if err != nil { return nil, err, 0 }
ConcatFailure(err, offset) == Triple(NilTree, err, 0)

\* the return after the loop over deps
ConcatResult(name, children, offset) ==
    IF Len(children) = 1
    THEN Triple(children[1], NilErr, offset)
    ELSE Triple(ParseTree(name, <<>>, children), NilErr, offset)

\* the loop takes the next dep and calls it
ConcatCall ==
    /\ Running("concat", "entry")
    /\ Top.i <= Len(Top.lex.Dependencies)
    /\ Call([Top EXCEPT !.pc = "wait"], Top.lex.Dependencies[Top.i],
            ConcatChildPos(Top.pos, Top.offset))
    /\ UNCHANGED lexVars

\* the dep failed
ConcatFail ==
    /\ Running("concat", "wait")
    /\ ret.valid
    /\ ret.err /= NilErr
    /\ Return(ConcatFailure(ret.err, Top.offset), Seen)
    /\ UNCHANGED lexVars

\* the dep matched
ConcatNext ==
    /\ Running("concat", "wait")
    /\ ret.valid
    /\ ret.err = NilErr
    /\ stack' = [stack EXCEPT ![Len(stack)] =
                   [Top EXCEPT !.children = IF ConcatKeeps(ret.tree)
                                            THEN Append(Top.children, ret.tree)
                                            ELSE Top.children,
                               !.offset = Top.offset + ret.n,
                               !.i = Top.i + 1,
                               !.pc = "entry",
                               !.hist = Seen]]
    /\ UNCHANGED <<root, buf, state, result, ret>>
    /\ UNCHANGED lexVars

\* the loop is over
ConcatReturn ==
    /\ Running("concat", "entry")
    /\ Top.i > Len(Top.lex.Dependencies)
    /\ Return(ConcatResult(Top.lex.Name, Top.children, Top.offset), Top.hist)
    /\ UNCHANGED lexVars

----------------------------------------------------------------------------
(* NewPlusClosure *)

\* the first failure is swallowed
PlusFailure_Swallowed(err) == Triple(NilTree, NilErr, 0)

\* the first attempt failed: return nil, err, 0
PlusFailure(err) == Triple(NilTree, err, 0)

\* return resp, nil, pos - start
PlusResult(typ, children, pos, start) ==
    Triple(ParseTree(typ, <<>>, children), NilErr, pos - start)

\* resp.Children = append(resp.Children, next); pos += off
Collect(f, r) ==
    [f EXCEPT !.children = Append(f.children, r.tree),
              !.pos = f.pos + r.n,
              !.pc = "loop",
              !.hist = Append(f.hist, r)]

\* next, err, off := lex.Lexer(s, pos)
PlusFirst ==
    /\ Running("plus", "entry")
    /\ Call([Top EXCEPT !.pc = "first"], Top.lex.Dependencies[1], Top.pos)
    /\ UNCHANGED lexVars

PlusFirstFail ==
    /\ Running("plus", "first")
    /\ ret.valid
    /\ ret.err /= NilErr
    /\ Return(PlusFailure(ret.err), Seen)
    /\ UNCHANGED lexVars

\* the first match is collected and the loop makes its first attempt
PlusFirstCollect ==
    /\ Running("plus", "first")
    /\ ret.valid
    /\ ret.err = NilErr
    /\ Call(Collect(Top, Returned), Top.lex.Dependencies[1], Top.pos + ret.n)
    /\ UNCHANGED lexVars

\* a match of the loop is collected and the loop attempts again
PlusCollect ==
    /\ Running("plus", "loop")
    /\ ret.valid
    /\ ret.err = NilErr
    /\ Len(Top.children) < MaxChildren
    /\ Call(Collect(Top, Returned), Top.lex.Dependencies[1], Top.pos + ret.n)
    /\ UNCHANGED lexVars

\* an attempt of the loop failed: break
PlusBreak ==
    /\ Running("plus", "loop")
    /\ ret.valid
    /\ ret.err /= NilErr
    /\ Return(PlusResult(Top.lex.Name, Top.children, Top.pos, Top.start), Seen)
    /\ UNCHANGED lexVars

----------------------------------------------------------------------------
(* NewStarClosure *)

\* the end position is returned in place of the consumed length
StarResult_EndPosition(typ, children, pos, start) ==
    Triple(ParseTree(typ, <<>>, children), NilErr, pos)

\* return resp, nil, pos - start
StarResult(typ, children, pos, start) ==
    Triple(ParseTree(typ, <<>>, children), NilErr, pos - start)

\* the loop's first attempt
StarCall ==
    /\ Running("star", "entry")
    /\ Call([Top EXCEPT !.pc = "loop"], Top.lex.Dependencies[1], Top.pos)
    /\ UNCHANGED lexVars

\* a match is collected and the loop attempts again
StarCollect ==
    /\ Running("star", "loop")
    /\ ret.valid
    /\ ret.err = NilErr
    /\ Len(Top.children) < MaxChildren
    /\ Call(Collect(Top, Returned), Top.lex.Dependencies[1], Top.pos + ret.n)
    /\ UNCHANGED lexVars

\* an attempt failed: break
StarBreak ==
    /\ Running("star", "loop")
    /\ ret.valid
    /\ ret.err /= NilErr
    /\ Return(StarResult(Top.lex.Name, Top.children, Top.pos, Top.start), Seen)
    /\ UNCHANGED lexVars

----------------------------------------------------------------------------
(* NewOptionClosure *)

\* tree, _, offset := lex.Lexer(s, pos); return tree, nil, offset
OptionResult(r) == Triple(r.tree, NilErr, r.n)

OptionCall ==
    /\ Running("option", "entry")
    /\ Call([Top EXCEPT !.pc = "wait"], Top.lex.Dependencies[1], Top.pos)
    /\ UNCHANGED lexVars

OptionReturn ==
    /\ Running("option", "wait")
    /\ ret.valid
    /\ Return(OptionResult(Returned), Seen)
    /\ UNCHANGED lexVars

----------------------------------------------------------------------------
(* NewAlternateLexer *)

\* lhs counts as matched only when it gave a tree
AlternateLhsDone_NeedsTree(r) == r.err = NilErr /\ ~r.tree.isNil

\* if err == nil { return tree, nil, off }
AlternateLhsDone(r) == r.err = NilErr

\* tree, err, off = rhs.Lexer(s, pos)
AlternateRhsPos(f) == f.pos

\* if err != nil { return nil, err, 0 }; return tree, nil, off
AlternateRhsResult(r) ==
    IF r.err /= NilErr THEN Triple(NilTree, r.err, 0) ELSE Triple(r.tree, NilErr, r.n)

AlternateLhs ==
    /\ Running("alternate", "entry")
    /\ Call([Top EXCEPT !.pc = "lhs"], Top.lex.Dependencies[1], Top.pos)
    /\ UNCHANGED lexVars

AlternateLhsReturn ==
    /\ Running("alternate", "lhs")
    /\ ret.valid
    /\ AlternateLhsDone(Returned)
    /\ Return(Triple(ret.tree, NilErr, ret.n), Seen)
    /\ UNCHANGED lexVars

AlternateRhs ==
    /\ Running("alternate", "lhs")
    /\ ret.valid
    /\ ~AlternateLhsDone(Returned)
    /\ Call([Top EXCEPT !.pc = "rhs", !.hist = Seen], Top.lex.Dependencies[2],
            AlternateRhsPos(Top))
    /\ UNCHANGED lexVars

AlternateRhsReturn ==
    /\ Running("alternate", "rhs")
    /\ ret.valid
    /\ Return(AlternateRhsResult(Returned), Seen)
    /\ UNCHANGED lexVars

----------------------------------------------------------------------------
(* NewDiscardLexer *)

\* _, _, offset := lex.Lexer(s, pos); return nil, nil, offset
DiscardResult(r) == Triple(NilTree, NilErr, r.n)

DiscardCall ==
    /\ Running("discard", "entry")
    /\ Call([Top EXCEPT !.pc = "wait"], Top.lex.Dependencies[1], Top.pos)
    /\ UNCHANGED lexVars

DiscardReturn ==
    /\ Running("discard", "wait")
    /\ ret.valid
    /\ Return(DiscardResult(Returned), Seen)
    /\ UNCHANGED lexVars

----------------------------------------------------------------------------
(* Language.Parse *)

NoResult == [tree |-> NilTree, err |-> NilErr]

\* NewSource succeeded: tree, err, _ := l.root.Lexer(s, 0)
Parse ==
    /\ state = "idle"
    /\ state' = "running"
    /\ stack' = <<Frame(root, 0)>>
    /\ ret' = NoRet
    /\ UNCHANGED <<root, buf, result>>
    /\ UNCHANGED lexVars

\* NewSource failed: return nil, err
ParseSourceError ==
    /\ state = "idle"
    /\ state' = "done"
    /\ result' = [tree |-> NilTree, err |-> [kind |-> "io", expected |-> <<>>, at |-> <<>>]]
    /\ UNCHANGED <<root, buf, stack, ret>>
    /\ UNCHANGED lexVars

\* return tree, err
ParseReturn ==
    /\ state = "running"
    /\ stack = <<>>
    /\ ret.valid
    /\ state' = "done"
    /\ result' = [tree |-> ret.tree, err |-> ret.err]
    /\ UNCHANGED <<root, buf, stack, ret>>
    /\ UNCHANGED lexVars

----------------------------------------------------------------------------
(* Grammar tokenizer: one producer, one consumer, one handoff *)

\* the characters of an identifier
IdentChars == {"a", "b", "p", "r", "g", "m", "_"}

BlankChars == {" ", "TAB"}

\* the one-character operator tokens
OperatorKind ==
    [c \in {"*", "+", "/", "?"} |->
        CASE c = "*" -> "itemClosure"
          [] c = "+" -> "itemPlus"
          [] c = "/" -> "itemAlternate"
          [] c = "?" -> "itemOptional"]

item(typ, val) == [typ |-> typ, val |-> val]

\* the end-of-input token: empty content
itemEOF == item("itemEOF", <<>>)

\* the 0-based offset of the first character from pos on that is not in S
RECURSIVE RunEnd(_, _, _)
RunEnd(src, S, pos) ==
    IF pos < Len(src) /\ src[pos + 1] \in S THEN RunEnd(src, S, pos + 1) ELSE pos

\* the 0-based offset of the first quote from pos on, Len(src) when there is none
RECURSIVE QuoteAt(_, _)
QuoteAt(src, pos) ==
    IF pos < Len(src) /\ src[pos + 1] /= "'" THEN QuoteAt(src, pos + 1) ELSE pos

\* '...' opened at the quote at offset q: the content with the quotes stripped
Quoted(src, typ, q) ==
    LET close == QuoteAt(src, q + 1)
    IN  IF close >= Len(src)
        THEN [kind |-> "error", tok |-> itemEOF, end |-> q]
        ELSE [kind |-> "token", tok |-> item(typ, Slice(src, q + 1, close)), end |-> close + 1]

\* the token that starts at offset pos < Len(src), and where it ends; an
\* unterminated quote is a lexical error; a character the grammar syntax gives
\* no token to is "unspecified"
NextToken(src, pos) ==
    LET c == src[pos + 1]
        run(S) == RunEnd(src, S, pos)
    IN  CASE c \in IdentChars ->
               [kind |-> "token", tok |-> item("itemIdentifier", Slice(src, pos, run(IdentChars))),
                end |-> run(IdentChars)]
          [] c \in BlankChars ->
               [kind |-> "token", tok |-> item("itemWhitespace", Slice(src, pos, run(BlankChars))),
                end |-> run(BlankChars)]
          [] c = "NL" ->
               [kind |-> "token", tok |-> item("itemNewline", <<"NL">>), end |-> pos + 1]
          [] c = "<" /\ pos + 1 < Len(src) /\ src[pos + 2] = "-" ->
               [kind |-> "token", tok |-> item("itemAssignment", <<"<", "-">>), end |-> pos + 2]
          [] c = "'" -> Quoted(src, "itemLiteral", pos)
          [] c = "~" /\ pos + 1 < Len(src) /\ src[pos + 2] = "'" ->
               Quoted(src, "itemRegexp", pos + 1)
          [] c \in DOMAIN OperatorKind ->
               [kind |-> "token", tok |-> item(OperatorKind[c], <<c>>), end |-> pos + 1]
          [] OTHER -> [kind |-> "unspecified", tok |-> itemEOF, end |-> pos]

\* the tokens of src from offset pos on, in source order, the end token last;
\* it stops at a lexical error
RECURSIVE Tokens(_, _)
Tokens(src, pos) ==
    IF pos >= Len(src) THEN <<itemEOF>>
    ELSE LET t == NextToken(src, pos)
         IN  IF t.kind = "token" THEN <<t.tok>> \o Tokens(src, t.end) ELSE <<>>

\* whether tokenizing src from pos on meets kind ("error" or "unspecified")
RECURSIVE Meets(_, _, _)
Meets(src, pos, kind) ==
    /\ pos < Len(src)
    /\ LET t == NextToken(src, pos)
       IN  IF t.kind = "token" THEN Meets(src, t.end, kind) ELSE t.kind = kind

SrcChars == {"a", " ", "NL", "<", "-", "'", "~", "*"}

\* inputs of lexTestTable: "prgm <- 'a'" and "prgm <- b*+/?"
TestInputs ==
    { <<"p", "r", "g", "m", " ", "<", "-", " ", "'", "a", "'">>,
      <<"p", "r", "g", "m", " ", "<", "-", " ", "b", "*", "+", "/", "?">> }

\* the grammar sources the tokenizer is run on
Sources ==
    {src \in UNION {[1..n -> SrcChars] : n \in 0..MaxSrc} : ~Meets(src, 0, "unspecified")}
        \cup TestInputs

\* the handoff buffers whatever the producer has scanned
CanSend_Buffered(ch) == TRUE

\* the producer may hand over a token: the consumer took the one before
CanSend(ch) == ch = <<>>

\* the producer scans the next token and hands it over
LexEmit ==
    /\ lpc = "scan"
    /\ lpos < Len(input)
    /\ NextToken(input, lpos).kind = "token"
    /\ CanSend(items)
    /\ items' = Append(items, NextToken(input, lpos).tok)
    /\ produced' = Append(produced, NextToken(input, lpos).tok)
    /\ lpos' = NextToken(input, lpos).end
    /\ UNCHANGED <<input, lpc, closed, lexErr, received, recvClosed>>
    /\ UNCHANGED engineVars

\* end of input: the end token is handed over
LexEmitEOF ==
    /\ lpc = "scan"
    /\ lpos >= Len(input)
    /\ CanSend(items)
    /\ items' = Append(items, itemEOF)
    /\ produced' = Append(produced, itemEOF)
    /\ lpc' = "eof"
    /\ UNCHANGED <<input, lpos, closed, lexErr, received, recvClosed>>
    /\ UNCHANGED engineVars

\* the end token was taken: the producer closes the handoff
LexClose ==
    /\ lpc = "eof"
    /\ items = <<>>
    /\ closed' = TRUE
    /\ lpc' = "done"
    /\ UNCHANGED <<input, lpos, items, lexErr, produced, received, recvClosed>>
    /\ UNCHANGED engineVars

\* an unterminated quote: the error is reported with its position and the
\* producer emits nothing more; whether it closes the handoff is left open
LexError ==
    /\ lpc = "scan"
    /\ lpos < Len(input)
    /\ NextToken(input, lpos).kind = "error"
    /\ lexErr' = NextToken(input, lpos).end
    /\ lpc' = "failed"
    /\ closed' \in BOOLEAN
    /\ UNCHANGED <<input, lpos, items, produced, received, recvClosed>>
    /\ UNCHANGED engineVars

\* ot, ok := <-l.items with ok true
Receive ==
    /\ items /= <<>>
    /\ ~recvClosed
    /\ received' = Append(received, Head(items))
    /\ items' = Tail(items)
    /\ UNCHANGED <<input, lpos, lpc, closed, lexErr, produced, recvClosed>>
    /\ UNCHANGED engineVars

\* x, ok := <-l.items with ok false: the channel is closed and empty
ReceiveClosed ==
    /\ items = <<>>
    /\ closed
    /\ ~recvClosed
    /\ recvClosed' = TRUE
    /\ UNCHANGED <<input, lpos, lpc, items, closed, lexErr, produced, received>>
    /\ UNCHANGED engineVars

EngineIdle ==
    /\ root = NoLex
    /\ buf = <<>>
    /\ state = "off"
    /\ stack = <<>>
    /\ ret = NoRet
    /\ result = NoResult

\* l := lex(strings.NewReader(tc.input)): the producer is started
LexInit ==
    /\ input \in Sources
    /\ lpos = 0
    /\ lpc = "scan"
    /\ items = <<>>
    /\ closed = FALSE
    /\ lexErr = -1
    /\ produced = <<>>
    /\ received = <<>>
    /\ recvClosed = FALSE
    /\ EngineIdle

LexNext ==
    \/ LexEmit
    \/ LexEmitEOF
    \/ LexClose
    \/ LexError
    \/ Receive
    \/ ReceiveClosed

LexSpec == LexInit /\ [][LexNext]_vars

----------------------------------------------------------------------------

LexIdle ==
    /\ input = <<>>
    /\ lpos = 0
    /\ lpc = "idle"
    /\ items = <<>>
    /\ closed = FALSE
    /\ lexErr = -1
    /\ produced = <<>>
    /\ received = <<>>
    /\ recvClosed = FALSE

Init ==
    /\ root \in Lexemes
    /\ buf \in Buffers
    /\ state = "idle"
    /\ stack = <<>>
    /\ ret = NoRet
    /\ result = NoResult
    /\ LexIdle

Next ==
    \/ Parse
    \/ ParseSourceError
    \/ ParseReturn
    \/ LiteralLexer
    \/ RegexpLexer
    \/ ConcatCall
    \/ ConcatFail
    \/ ConcatNext
    \/ ConcatReturn
    \/ PlusFirst
    \/ PlusFirstFail
    \/ PlusFirstCollect
    \/ PlusCollect
    \/ PlusBreak
    \/ StarCall
    \/ StarCollect
    \/ StarBreak
    \/ OptionCall
    \/ OptionReturn
    \/ AlternateLhs
    \/ AlternateLhsReturn
    \/ AlternateRhs
    \/ AlternateRhsReturn
    \/ DiscardCall
    \/ DiscardReturn

Spec == Init /\ [][Next]_vars

----------------------------------------------------------------------------
(* Properties of the matching engine, stated on the return register: ret     *)
(* holds the last return of a Lexer closure (its lexeme, the position it was *)
(* called at, its triple) and ret.hist the child calls that closure made,    *)
(* in order, each with the position it was made at and what it returned.     *)

Last(s) == s[Len(s)]

Failed(r) == r.err /= NilErr

\* the consumed lengths of the calls h, added up
RECURSIVE SumN(_)
SumN(h) == IF h = <<>> THEN 0 ELSE h[1].n + SumN(Tail(h))

TreesOf(h) == [k \in 1..Len(h) |-> h[k].tree]

\* each call of h was made where the one before it ended, the first at pos
Chained(h, pos) == \A k \in 1..Len(h) : h[k].pos = pos + SumN(SubSeq(h, 1, k - 1))

\* all calls of h but the last matched
OnlyLastMayFail(h) == \A k \in 1..(Len(h) - 1) : ~Failed(h[k])

ReturnOf(kind) == ret.valid /\ ret.lex.kind = kind

\* C1: Discard propagates failure: whenever a Discard returns, it fails if
\* its child failed at that position, and if the child matched it succeeds with
\* no tree and exactly the child's consumed length.
C1_DiscardPropagatesFailure ==
    ReturnOf("discard") =>
        LET c == ret.hist[1]
        IN  /\ c.lex = ret.lex.Dependencies[1]
            /\ c.pos = ret.pos
            /\ Failed(c) => Failed(ret)
            /\ ~Failed(c) => /\ ~Failed(ret)
                             /\ ret.tree = NilTree
                             /\ ret.n = c.n

\* C2: Star and Plus always terminate. The child's result depends on the
\* buffer and the position alone, so a repetition that attempts its child a
\* second time at a position it has already attempted it at goes on doing so
\* for ever: the loop terminates only if no repetition frame ever attempts its
\* child twice at the same position.
C2_RepetitionNeverRetriesSamePosition ==
    \A d \in 1..Len(stack) :
        stack[d].lex.kind \in {"star", "plus"} =>
            \A j, k \in 1..Len(stack[d].hist) :
                j < k => stack[d].hist[j].pos /= stack[d].hist[k].pos

\* C3: Alternate is ordered choice at a fixed position: lhs is attempted at
\* pos; if it matches, its tree and consumed length are the result and rhs is
\* not called; if it fails, rhs is called at the same pos and its result is the
\* result; the alternate fails iff both fail. 'a' / 'b' against "b" matches
\* and consumes one byte.
C3_AlternateOrderedChoice ==
    /\ ReturnOf("alternate") =>
        LET h == ret.hist
        IN  /\ Len(h) >= 1
            /\ h[1].lex = ret.lex.Dependencies[1]
            /\ h[1].pos = ret.pos
            /\ IF ~Failed(h[1])
               THEN /\ Len(h) = 1
                    /\ Triple(ret.tree, ret.err, ret.n) = Triple(h[1].tree, NilErr, h[1].n)
               ELSE /\ Len(h) = 2
                    /\ h[2].lex = ret.lex.Dependencies[2]
                    /\ h[2].pos = ret.pos
                    /\ Triple(ret.tree, ret.err, ret.n) = Triple(h[2].tree, h[2].err, h[2].n)
            /\ Failed(ret) <=> (\A k \in 1..2 : k <= Len(h) /\ Failed(h[k]))
    /\ (state = "done" /\ ret.valid /\ root = NewAlternateLexer(<<"alt">>, LitA, LitB)
            /\ buf = <<"b">>)
        => (result.err = NilErr /\ ret.n = 1)

\* 'a' / 'b' against "b": the right alternative was taken after the left failed
C3_Witness ==
    /\ state = "done"
    /\ root = NewAlternateLexer(<<"alt">>, LitA, LitB)
    /\ buf = <<"b">>
    /\ Len(ret.hist) = 2
    /\ Failed(ret.hist[1])
    /\ ret.n = 1

\* C4: Star never fails: whenever a Star returns it returns success; its
\* attempts are chained from pos, all but the last matched and the last
\* failed; its children are the trees of the matches and its consumed length
\* the sum of theirs; when the first attempt fails it consumed 0 and has no
\* children. 'a'* against the empty input matches with 0 consumed, no children.
C4_StarNeverFails ==
    /\ ReturnOf("star") =>
        LET h == ret.hist
            matches == SubSeq(h, 1, Len(h) - 1)
        IN  /\ ~Failed(ret)
            /\ ~ret.tree.isNil
            /\ Len(h) >= 1
            /\ \A k \in 1..Len(h) : h[k].lex = ret.lex.Dependencies[1]
            /\ Chained(h, ret.pos)
            /\ OnlyLastMayFail(h)
            /\ Failed(Last(h))
            /\ ret.tree.Children = TreesOf(matches)
            /\ ret.n = SumN(matches)
            /\ Failed(h[1]) => (ret.n = 0 /\ ret.tree.Children = <<>>)
    /\ (state = "done" /\ ret.valid /\ root = NewStarClosure(LitA) /\ buf = <<>>)
        => (result.err = NilErr /\ ret.n = 0 /\ result.tree.Children = <<>>)

\* a Star called past the start of the buffer that collected two matches
C4_Witness ==
    /\ ReturnOf("star")
    /\ ret.pos = 1
    /\ Len(ret.hist) = 3
    /\ ret.n = 2
    /\ Len(ret.tree.Children) = 2

\* C5: Plus requires one success: a Plus fails iff its child fails at pos,
\* and then with the child's error, no tree and 0 consumed; when it succeeds
\* it collected at least one match, stopped at the first later failure without
\* reporting it, and consumed the sum of the matches' lengths. 'a'+ against
\* the empty input fails.
C5_PlusRequiresOneSuccess ==
    /\ ReturnOf("plus") =>
        LET h == ret.hist
            matches == SubSeq(h, 1, Len(h) - 1)
        IN  /\ Len(h) >= 1
            /\ \A k \in 1..Len(h) : h[k].lex = ret.lex.Dependencies[1]
            /\ Chained(h, ret.pos)
            /\ Failed(ret) <=> Failed(h[1])
            /\ Failed(h[1]) =>
                 /\ Len(h) = 1
                 /\ Triple(ret.tree, ret.err, ret.n) = Triple(NilTree, h[1].err, 0)
            /\ ~Failed(h[1]) =>
                 /\ Len(h) >= 2
                 /\ OnlyLastMayFail(h)
                 /\ Failed(Last(h))
                 /\ ~ret.tree.isNil
                 /\ Len(ret.tree.Children) >= 1
                 /\ ret.tree.Children = TreesOf(matches)
                 /\ ret.n = SumN(matches)
    /\ (state = "done" /\ ret.valid /\ root = NewPlusClosure(LitA) /\ buf = <<>>)
        => result.err /= NilErr

\* a Plus called past the start of the buffer that collected two matches and
\* stopped at a failure
C5_Witness ==
    /\ ReturnOf("plus")
    /\ ret.pos = 1
    /\ Len(ret.hist) = 3
    /\ ~Failed(ret)
    /\ ret.n = 2

\* C6: Optional never propagates failure: an Optional returns a nil error;
\* when the child matched, its tree and consumed length pass through; when the
\* child failed, the result is no tree and 0 consumed; and every closure that
\* returns an error returns no tree and 0 consumed with it.
C6_OptionalAbsorbsFailure ==
    /\ ReturnOf("option") =>
        LET c == ret.hist[1]
        IN  /\ Len(ret.hist) = 1
            /\ c.lex = ret.lex.Dependencies[1]
            /\ c.pos = ret.pos
            /\ ~Failed(ret)
            /\ ~Failed(c) => (ret.tree = c.tree /\ ret.n = c.n)
            /\ Failed(c) => (ret.tree = NilTree /\ ret.n = 0)
    /\ (ret.valid /\ Failed(ret)) => (ret.tree = NilTree /\ ret.n = 0)

\* an Optional whose child, a concatenation, failed after its first dep matched
C6_Witness ==
    /\ ReturnOf("option")
    /\ ret.lex = NewOptionClosure(NewConcatLexer(<<"seq">>, <<LitA, LitB>>))
    /\ buf = <<"a", "a">>
    /\ Failed(ret.hist[1])
    /\ ret.n = 0

\* C7: Concatenation is all-or-nothing at cumulative positions: dep k is
\* called at pos plus the lengths consumed by the deps before it; a failing dep
\* is the last one called and the concatenation returns its error with no tree
\* and 0 consumed; when all match, the consumed length is the sum, the
\* children are the non-nil trees in order, and a single such tree is
\* returned itself instead of a wrapper.
C7_ConcatAllOrNothing ==
    ReturnOf("concat") =>
        LET h == ret.hist
            deps == ret.lex.Dependencies
            kept == SelectSeq(TreesOf(h), LAMBDA t : ~t.isNil)
        IN  /\ Len(h) <= Len(deps)
            /\ \A k \in 1..Len(h) : h[k].lex = deps[k]
            /\ Chained(h, ret.pos)
            /\ OnlyLastMayFail(h)
            /\ IF h /= <<>> /\ Failed(Last(h))
               THEN Triple(ret.tree, ret.err, ret.n) = Triple(NilTree, Last(h).err, 0)
               ELSE /\ Len(h) = Len(deps)
                    /\ ~Failed(ret)
                    /\ ret.n = SumN(h)
                    /\ ret.tree = IF Len(kept) = 1 THEN kept[1]
                                  ELSE ParseTree(ret.lex.Name, <<>>, kept)

\* a concatenation of a discarded dep (length, no child entry) and a dep that
\* is called where the first ended and whose tree is returned unwrapped
C7_Witness ==
    /\ ReturnOf("concat")
    /\ ret.lex = NewConcatLexer(<<"seq">>, <<NewDiscardLexer(LitA), LitB>>)
    /\ buf = <<"a", "b">>
    /\ ret.hist[1].tree = NilTree
    /\ ret.hist[2].pos = 1
    /\ ret.n = 2
    /\ ret.tree = ParseTree(<<"lit">>, <<"b">>, <<>>)

\* every node of t is a composite (children, no Data) or a terminal (Data, no
\* children), and no child entry is nil
RECURSIVE WellShaped(_)
WellShaped(t) ==
    /\ ~t.isNil
    /\ \/ t.Children /= <<>> /\ t.Data = <<>>
       \/ t.Children = <<>> /\ t.Data /= <<>>
    /\ \A k \in 1..Len(t.Children) : WellShaped(t.Children[k])

\* no node of t has both children and Data, no child entry is nil, and a
\* node with neither is a Star's or a concatenation's
RECURSIVE Shaped(_)
Shaped(t) ==
    /\ ~t.isNil
    /\ ~(t.Children /= <<>> /\ t.Data /= <<>>)
    /\ (t.Children = <<>> /\ t.Data = <<>>) => (Last(t.Type) = "*" \/ t.Type = <<"seq">>)
    /\ \A k \in 1..Len(t.Children) : Shaped(t.Children[k])

\* C8 as claimed: every node of every tree a successful match returns has
\* children and no Data, or Data and no children; none has neither; no child
\* entry is nil.
C8_TreeShapeAsClaimed ==
    (ret.valid /\ ~Failed(ret) /\ ~ret.tree.isNil) => WellShaped(ret.tree)

\* C8 amended: in every tree a successful match returns no node has both
\* children and Data and no child entry is nil; a node may have neither: a
\* Star that matched nothing, or a concatenation none of whose deps gave a tree.
C8_TreeShape ==
    (ret.valid /\ ~Failed(ret) /\ ~ret.tree.isNil) => Shaped(ret.tree)

\* a returned wrapper whose first child is the node of a Star that matched nothing
C8_Witness ==
    /\ ReturnOf("concat")
    /\ ret.lex = NewConcatLexer(<<"seq">>, <<NewStarClosure(LitA), NewPlusClosure(LitB)>>)
    /\ ~Failed(ret)
    /\ Len(ret.tree.Children) = 2
    /\ ret.tree.Children[1].Children = <<>>
    /\ Len(ret.tree.Children[2].Children) = 2

\* the Data of the leaves of t, left to right
RECURSIVE Leaves(_)
Flatten(ts) ==
    LET RECURSIVE F(_)
        F(k) == IF k > Len(ts) THEN <<>> ELSE Leaves(ts[k]) \o F(k + 1)
    IN  F(1)
Leaves(t) ==
    IF t.isNil THEN <<>>
    ELSE IF t.Children = <<>> THEN t.Data
    ELSE Flatten(t.Children)

RECURSIVE HasDiscard(_)
HasDiscard(lex) ==
    \/ lex.kind = "discard"
    \/ \E k \in 1..Len(lex.Dependencies) : HasDiscard(lex.Dependencies[k])

\* Parse returned a match of the root rule
Matched == state = "done" /\ ret.valid /\ result.err = NilErr

\* C9 as claimed: when the root rule matches at offset 0 with consumed length
\* n, the leaves of the tree concatenate to input[0:n], and n is at most the
\* input's length.
C9_RoundTripAsClaimed ==
    Matched => (ret.n <= Len(buf) /\ Leaves(result.tree) = Slice(buf, 0, ret.n))

\* C9 amended: n is at most the input's length, and for a rule graph with no
\* Discard in it the leaves of the tree concatenate to input[0:n].
C9_RoundTrip ==
    Matched =>
        /\ ret.n <= Len(buf)
        /\ ~HasDiscard(root) => Leaves(result.tree) = Slice(buf, 0, ret.n)

\* 'a'+ 'b' matched against "aab": two levels of tree, three bytes
C9_Witness ==
    /\ Matched
    /\ root = NewConcatLexer(<<"seq">>, <<NewPlusClosure(LitA), LitB>>)
    /\ buf = <<"a", "a", "b">>
    /\ ret.n = 3
    /\ Len(result.tree.Children) = 2

----------------------------------------------------------------------------
(* Properties of the tokenizer's handoff *)

IsPrefix(s, t) == Len(s) <= Len(t) /\ s = SubSeq(t, 1, Len(s))

\* the producer has stopped and the consumer has taken all it handed over
Drained == lpc \in {"done", "failed"} /\ items = <<>>

\* what lexTestTable expects of "prgm <- 'a'"
ExpectedOfFirstTest ==
    << item("itemIdentifier", <<"p", "r", "g", "m">>),
       item("itemWhitespace", <<" ">>),
       item("itemAssignment", <<"<", "-">>),
       item("itemWhitespace", <<" ">>),
       item("itemLiteral", <<"a">>),
       item("itemEOF", <<>>) >>

FirstTestInput == <<"p", "r", "g", "m", " ", "<", "-", " ", "'", "a", "'">>

\* the tokens are received in source order, the producer at most one ahead
Ordered ==
    /\ IsPrefix(received, Tokens(input, 0))
    /\ Len(produced) - Len(received) <= 1

\* the last token received is the one end token, and then the channel is
\* closed with no further token
EndsWithEOF ==
    /\ Drained =>
         /\ received /= <<>>
         /\ Last(received) = itemEOF
         /\ Cardinality({k \in 1..Len(received) : received[k].typ = "itemEOF"}) = 1
         /\ closed
    /\ recvClosed => (received /= <<>> /\ Last(received) = itemEOF /\ items = <<>>)
    /\ (recvClosed /\ input = FirstTestInput) => received = ExpectedOfFirstTest

\* C10 as claimed: for every grammar source the tokens are received in source
\* order with the producer at most one ahead, the last token received is the
\* one end token with empty content, and the next receive reports the channel
\* closed.
C10_HandoffAsClaimed == Ordered /\ EndsWithEOF

\* C10 amended: for every grammar source the tokens are received in source
\* order with the producer at most one ahead; for a source with no
\* unterminated quote the last token received is the one end token with
\* empty content and the next receive reports the channel closed.
C10_Handoff == Ordered /\ (~Meets(input, 0, "error") => EndsWithEOF)

\* "prgm <- 'a'": the six expected tokens were received, then channel closed
C10_Witness ==
    /\ input = FirstTestInput
    /\ recvClosed
    /\ received = ExpectedOfFirstTest

====
